---- MODULE Spec2Model ----
(***************************************************************************)
(* The shared audio player of PlaylistManager (app/player.py) and the      *)
(* WebSocket loop that drives it (app/websocket.py).                       *)
(*                                                                         *)
(* `player` holds the module globals of app/player.py.  Every public       *)
(* function of the module is an operator from player state to player state *)
(* and an action of Spec.  SpecWS runs the connection loops of             *)
(* websocket_endpoint over the same player.  The in-memory session store   *)
(* of app/session.py is modelled beside it and runs under SpecSession.     *)
(***************************************************************************)
EXTENDS Integers, Sequences, FiniteSets, TLC

VARIABLES
    player,         \* the module globals of app/player.py
    pre,            \* direct calls: the player before the last call
    lastOp,         \* direct calls: the last call
    anchor,         \* direct calls: the last call that was not a tick
    base,           \* direct calls: the player right after `anchor`
    nticks,         \* direct calls: tick() calls since `anchor`
    pc,             \* per connection: position in websocket_endpoint
    lastSent,       \* the status message sent by the latest loop iteration,
                    \* and to whom (conn 0: it sent none)
    ticksInSecond,  \* tick() calls made during the current second
    secondStart,    \* the player when the current second began, while no
                    \* command has been applied since
    _sessions,      \* app/session.py: session id -> (user_id, expires_at)
    now,            \* the clock read by time.time()
    issued,         \* the session ids uuid4() has produced so far
    removed,        \* the session ids whose entry a call has deleted
    threads,        \* per worker thread: its position in a call of
                    \* app/session.py and the locals of that call
    sessOp          \* the call of app/session.py that has just returned

vars == <<player, pre, lastOp, anchor, base, nticks,
          pc, lastSent, ticksInSecond, secondStart,
          _sessions, now, issued, removed, threads, sessOp>>

sessVars == <<_sessions, now, issued, removed, threads, sessOp>>

----------------------------------------------------------------------------
(* Bounds *)

MaxQueue == 3       \* queue length the model explores with direct calls
MaxQueueWS == 2     \* queue length the model explores with connection loops
MaxTicks == 4       \* consecutive ticks the engine-level model explores
NConn == 2          \* WebSocket connections

----------------------------------------------------------------------------
(* The catalog (database rows read through SessionLocal) *)

None == 0

\* the tracks table: track 1 lasts one second, track 2 two seconds
\* (CHECK duration > 0 AND duration < 86400)
Durations == <<1, 2>>
Titles == <<"A", "B">>

TrackIds == DOMAIN Durations

\* ids a client may send: every known id and one the catalog does not hold
TrackArgs == TrackIds \cup {Len(Durations) + 1}

\* tracks.duration
Duration(t) == Durations[t]

\* tracks.title
Title(t) == Titles[t]

\* db.get(Track, track_id): the track, or None
GetTrack(track_id) == IF track_id \in TrackIds THEN track_id ELSE None

\* playlists 1..3 exist; playlist 3 has no tracks; playlist 4 does not exist
PlaylistIds == 1..3
PlaylistArgs == 1..4
PlaylistRows(p) ==
    CASE p = 1 -> <<1, 2>>
      [] p = 2 -> <<2>>
      [] OTHER -> <<>>

\* playlists.name
PlaylistNames == {"rock", "solo", "empty", "missing"}
PlaylistByName(name) ==
    CASE name = "rock" -> 1
      [] name = "solo" -> 2
      [] name = "empty" -> 3
      [] OTHER -> None

\* albums 1..2 exist; album 2 has no tracks; album 3 does not exist
AlbumIds == 1..2
AlbumArgs == 1..3
AlbumRows(a) ==
    CASE a = 1 -> <<2, 1>>
      [] OTHER -> <<>>

----------------------------------------------------------------------------
(* app/player.py *)

\* module globals after import
InitPlayer ==
    [ queue           |-> <<>>,
      current         |-> None,
      elapsed         |-> 0,
      is_paused       |-> FALSE,
      loop_track      |-> FALSE,
      loop_playlist   |-> FALSE,
      playlist_mode   |-> FALSE,
      playlist_tracks |-> <<>>,
      playlist_index  |-> 0 ]

\* reset() without queue.clear()
reset_keeps_queue(s) ==
    [ s EXCEPT !.current = None,
               !.elapsed = 0,
               !.loop_track = FALSE,
               !.loop_playlist = FALSE,
               !.playlist_mode = FALSE,
               !.playlist_tracks = <<>>,
               !.playlist_index = 0,
               !.is_paused = FALSE ]

reset(s) ==
    [ s EXCEPT !.queue = <<>>,
               !.current = None,
               !.elapsed = 0,
               !.loop_track = FALSE,
               !.loop_playlist = FALSE,
               !.playlist_mode = FALSE,
               !.playlist_tracks = <<>>,
               !.playlist_index = 0,
               !.is_paused = FALSE ]

is_stopped(s) == s.current = None

reset_loops(s) == [ s EXCEPT !.loop_track = FALSE, !.loop_playlist = FALSE ]


\* stop_all without reset_loops()
stop_all_keeps_loops(s) ==
    [ s EXCEPT !.current = None,
               !.elapsed = 0,
               !.playlist_mode = FALSE,
               !.is_paused = FALSE ]

\* stop_all with the queue.clear() of reset()
stop_all_clears_queue(s) ==
    reset_loops([ s EXCEPT !.current = None,
                           !.elapsed = 0,
                           !.playlist_mode = FALSE,
                           !.is_paused = FALSE,
                           !.queue = <<>> ])

\* stop_all without `playlist_mode = False`
stop_all_keeps_mode(s) ==
    reset_loops([ s EXCEPT !.current = None,
                           !.elapsed = 0,
                           !.is_paused = FALSE ])

stop_all(s) ==
    reset_loops([ s EXCEPT !.current = None,
                           !.elapsed = 0,
                           !.playlist_mode = FALSE,
                           !.is_paused = FALSE ])


\* next_track with queue[0] read in place of queue.popleft()
next_track_keeps_head(s) ==
    LET s1 == [ s EXCEPT !.elapsed = 0, !.is_paused = FALSE ] IN
    IF s1.playlist_mode
    THEN LET s2 == [ s1 EXCEPT !.playlist_index = @ + 1 ] IN
         IF s2.playlist_index >= Len(s2.playlist_tracks)
         THEN IF s2.loop_playlist
              THEN LET s3 == [ s2 EXCEPT !.playlist_index = 0 ] IN
                   [ s3 EXCEPT !.current = s3.playlist_tracks[1] ]
              ELSE stop_all(s2)
         ELSE [ s2 EXCEPT !.current = s2.playlist_tracks[s2.playlist_index + 1] ]
    ELSE IF s1.queue # <<>>
         THEN [ s1 EXCEPT !.current = Head(s1.queue) ]
         ELSE stop_all(s1)

\* next_track that stops at the end of the list whatever loop_playlist says
next_track_no_wrap(s) ==
    LET s1 == [ s EXCEPT !.elapsed = 0, !.is_paused = FALSE ] IN
    IF s1.playlist_mode
    THEN LET s2 == [ s1 EXCEPT !.playlist_index = @ + 1 ] IN
         IF s2.playlist_index >= Len(s2.playlist_tracks)
         THEN stop_all(s2)
         ELSE [ s2 EXCEPT !.current = s2.playlist_tracks[s2.playlist_index + 1] ]
    ELSE IF s1.queue # <<>>
         THEN [ s1 EXCEPT !.current = Head(s1.queue), !.queue = Tail(s1.queue) ]
         ELSE stop_all(s1)

\* next_track that restarts the list at its end whatever loop_playlist says
next_track_always_wraps(s) ==
    LET s1 == [ s EXCEPT !.elapsed = 0, !.is_paused = FALSE ] IN
    IF s1.playlist_mode
    THEN LET s2 == [ s1 EXCEPT !.playlist_index = @ + 1 ] IN
         IF s2.playlist_index >= Len(s2.playlist_tracks)
         THEN LET s3 == [ s2 EXCEPT !.playlist_index = 0 ] IN
              [ s3 EXCEPT !.current = s3.playlist_tracks[1] ]
         ELSE [ s2 EXCEPT !.current = s2.playlist_tracks[s2.playlist_index + 1] ]
    ELSE IF s1.queue # <<>>
         THEN [ s1 EXCEPT !.current = Head(s1.queue), !.queue = Tail(s1.queue) ]
         ELSE stop_all(s1)

\* next_track that returns right after `playlist_index = 0` when it wraps
next_track_wrap_keeps_current(s) ==
    LET s1 == [ s EXCEPT !.elapsed = 0, !.is_paused = FALSE ] IN
    IF s1.playlist_mode
    THEN LET s2 == [ s1 EXCEPT !.playlist_index = @ + 1 ] IN
         IF s2.playlist_index >= Len(s2.playlist_tracks)
         THEN IF s2.loop_playlist
              THEN [ s2 EXCEPT !.playlist_index = 0 ]
              ELSE stop_all(s2)
         ELSE [ s2 EXCEPT !.current = s2.playlist_tracks[s2.playlist_index + 1] ]
    ELSE IF s1.queue # <<>>
         THEN [ s1 EXCEPT !.current = Head(s1.queue), !.queue = Tail(s1.queue) ]
         ELSE stop_all(s1)

\* next_track that goes on with the queue when the list has ended
next_track_list_then_queue(s) ==
    LET s1 == [ s EXCEPT !.elapsed = 0, !.is_paused = FALSE ] IN
    IF s1.playlist_mode
    THEN LET s2 == [ s1 EXCEPT !.playlist_index = @ + 1 ] IN
         IF s2.playlist_index >= Len(s2.playlist_tracks)
         THEN IF s2.loop_playlist
              THEN LET s3 == [ s2 EXCEPT !.playlist_index = 0 ] IN
                   [ s3 EXCEPT !.current = s3.playlist_tracks[1] ]
              ELSE IF s2.queue # <<>>
              THEN [ s2 EXCEPT !.current = Head(s2.queue),
                               !.queue = Tail(s2.queue),
                               !.playlist_mode = FALSE ]
              ELSE stop_all(s2)
         ELSE [ s2 EXCEPT !.current = s2.playlist_tracks[s2.playlist_index + 1] ]
    ELSE IF s1.queue # <<>>
         THEN [ s1 EXCEPT !.current = Head(s1.queue), !.queue = Tail(s1.queue) ]
         ELSE stop_all(s1)

next_track(s) ==
    LET s1 == [ s EXCEPT !.elapsed = 0, !.is_paused = FALSE ] IN
    IF s1.playlist_mode
    THEN LET s2 == [ s1 EXCEPT !.playlist_index = @ + 1 ] IN
         IF s2.playlist_index >= Len(s2.playlist_tracks)
         THEN IF s2.loop_playlist
              THEN LET s3 == [ s2 EXCEPT !.playlist_index = 0 ] IN
                   [ s3 EXCEPT !.current = s3.playlist_tracks[1] ]
              ELSE stop_all(s2)
         ELSE [ s2 EXCEPT !.current = s2.playlist_tracks[s2.playlist_index + 1] ]
    ELSE IF s1.queue # <<>>
         THEN [ s1 EXCEPT !.current = Head(s1.queue), !.queue = Tail(s1.queue) ]
         ELSE stop_all(s1)

\* play() that starts the current track again when it resumes
play_restarts(s) ==
    IF s.current = None
    THEN next_track(s)
    ELSE [ s EXCEPT !.is_paused = FALSE, !.elapsed = 0 ]

play(s) ==
    IF s.current = None
    THEN next_track(s)
    ELSE [ s EXCEPT !.is_paused = FALSE ]


\* the value play() returns
play_result(s) == play(s).current

\* stop() without the `current is not None` guard
stop_unguarded(s) == [ s EXCEPT !.is_paused = TRUE ]

\* stop() that pauses a stopped engine too and is refused while paused
stop_always(s) == [ s EXCEPT !.is_paused = ~@ ]

stop(s) ==
    IF s.current # None
    THEN [ s EXCEPT !.is_paused = TRUE ]
    ELSE s

\* skip() that repeats the current track while loop_track is set
skip_repeats(s) ==
    IF s.current # None /\ s.loop_track
    THEN [ s EXCEPT !.elapsed = 0, !.is_paused = FALSE ]
    ELSE next_track(s)

skip(s) == next_track(s)


\* add_to_queue without the `if current is None: play()` at its end
add_to_queue_no_autoplay(s, track_id) ==
    LET track == GetTrack(track_id) IN
    IF track = None
    THEN s
    ELSE [ s EXCEPT !.queue = Append(@, track) ]

\* add_to_queue with queue.appendleft(track)
add_to_queue_front(s, track_id) ==
    LET track == GetTrack(track_id) IN
    IF track = None
    THEN s
    ELSE LET s1 == [ s EXCEPT !.queue = <<track>> \o @ ] IN
         IF s1.current = None THEN play(s1) ELSE s1

\* add_to_queue that starts the added track itself on a stopped engine
add_to_queue_plays_added(s, track_id) ==
    LET track == GetTrack(track_id) IN
    IF track = None
    THEN s
    ELSE IF s.current = None
         THEN [ s EXCEPT !.current = track, !.elapsed = 0, !.is_paused = FALSE ]
         ELSE [ s EXCEPT !.queue = Append(@, track) ]

add_to_queue(s, track_id) ==
    LET track == GetTrack(track_id) IN
    IF track = None
    THEN s
    ELSE LET s1 == [ s EXCEPT !.queue = Append(@, track) ] IN
         IF s1.current = None THEN play(s1) ELSE s1

\* index of the first queue entry with this id, 0 when there is none
FirstIndex(q, track_id) ==
    IF \E i \in 1..Len(q) : q[i] = track_id
    THEN CHOOSE i \in 1..Len(q) :
            /\ q[i] = track_id
            /\ \A j \in 1..(i - 1) : q[j] # track_id
    ELSE 0

RemoveAt(q, i) == SubSeq(q, 1, i - 1) \o SubSeq(q, i + 1, Len(q))


\* remove_from_queue that removes the last entry with this id
remove_from_queue_last(s, track_id) ==
    IF \E i \in 1..Len(s.queue) : s.queue[i] = track_id
    THEN LET i == CHOOSE i \in 1..Len(s.queue) :
                     /\ s.queue[i] = track_id
                     /\ \A j \in (i + 1)..Len(s.queue) : s.queue[j] # track_id
         IN [ s EXCEPT !.queue = RemoveAt(@, i) ]
    ELSE s

remove_from_queue(s, track_id) ==
    LET i == FirstIndex(s.queue, track_id) IN
    IF i = 0 THEN s ELSE [ s EXCEPT !.queue = RemoveAt(@, i) ]


\* the value remove_from_queue returns
remove_from_queue_result(s, track_id) == FirstIndex(s.queue, track_id) # 0

\* tick with `elapsed <= current.duration` as the end-of-track test
tick_late_end(s) ==
    IF s.current = None \/ s.is_paused
    THEN s
    ELSE LET s1 == [ s EXCEPT !.elapsed = @ + 1 ] IN
         IF s1.elapsed <= Duration(s1.current)
         THEN s1
         ELSE IF s1.loop_track
              THEN [ s1 EXCEPT !.elapsed = 0 ]
              ELSE next_track(s1)

\* tick that never looks at loop_track
tick_no_loop(s) ==
    IF s.current = None \/ s.is_paused
    THEN s
    ELSE LET s1 == [ s EXCEPT !.elapsed = @ + 1 ] IN
         IF s1.elapsed < Duration(s1.current)
         THEN s1
         ELSE next_track(s1)

\* tick that never looks at is_paused
tick_ignores_pause(s) ==
    IF s.current = None
    THEN s
    ELSE LET s1 == [ s EXCEPT !.elapsed = @ + 1 ] IN
         IF s1.elapsed < Duration(s1.current)
         THEN s1
         ELSE IF s1.loop_track
              THEN [ s1 EXCEPT !.elapsed = 0 ]
              ELSE next_track(s1)

\* tick that calls stop_all() instead of next_track() when the track ends
tick_end_stops(s) ==
    IF s.current = None
    THEN s
    ELSE IF s.is_paused
    THEN s
    ELSE LET s1 == [ s EXCEPT !.elapsed = @ + 1 ] IN
         IF s1.elapsed >= Duration(s1.current)
         THEN IF s1.loop_track
              THEN [ s1 EXCEPT !.elapsed = 0 ]
              ELSE stop_all(s1)
         ELSE s1

\* tick that starts the current track again whenever it ends
tick_replays(s) ==
    IF s.current = None
    THEN s
    ELSE IF s.is_paused
    THEN s
    ELSE LET s1 == [ s EXCEPT !.elapsed = @ + 1 ] IN
         IF s1.elapsed >= Duration(s1.current)
         THEN [ s1 EXCEPT !.elapsed = 0 ]
         ELSE s1

tick(s) ==
    IF s.current = None \/ s.is_paused
    THEN s
    ELSE LET s1 == [ s EXCEPT !.elapsed = @ + 1 ] IN
         IF s1.elapsed < Duration(s1.current)
         THEN s1
         ELSE IF s1.loop_track
              THEN [ s1 EXCEPT !.elapsed = 0 ]
              ELSE next_track(s1)


\* select_track without `is_paused = False`

\* select_track without the `if not track: return None` test
select_track_unchecked(s, track_id) ==
    LET track == GetTrack(track_id) IN
    LET s1 == reset_loops([ s EXCEPT !.playlist_mode = FALSE ]) IN
    [ s1 EXCEPT !.current = track, !.elapsed = 0, !.is_paused = FALSE ]

select_track_keeps_pause(s, track_id) ==
    LET track == GetTrack(track_id) IN
    IF track = None
    THEN s
    ELSE LET s1 == reset_loops([ s EXCEPT !.playlist_mode = FALSE ]) IN
         [ s1 EXCEPT !.current = track, !.elapsed = 0 ]

\* select_track with the queue.clear() of _select_playlist
select_track_clears_queue(s, track_id) ==
    LET track == GetTrack(track_id) IN
    IF track = None
    THEN s
    ELSE LET s1 == reset_loops([ s EXCEPT !.playlist_mode = FALSE ]) IN
         [ s1 EXCEPT !.queue = <<>>,
                     !.current = track, !.elapsed = 0, !.is_paused = FALSE ]

select_track(s, track_id) ==
    LET track == GetTrack(track_id) IN
    IF track = None
    THEN s
    ELSE LET s1 == reset_loops([ s EXCEPT !.playlist_mode = FALSE ]) IN
         [ s1 EXCEPT !.current = track, !.elapsed = 0, !.is_paused = FALSE ]


\* _select_playlist without queue.clear()
_select_playlist_keeps_queue(s, tracks, loop) ==
    [ s EXCEPT !.playlist_mode = TRUE,
               !.playlist_tracks = tracks,
               !.playlist_index = 0,
               !.loop_playlist = loop,
               !.current = tracks[1],
               !.elapsed = 0,
               !.is_paused = FALSE ]

_select_playlist(s, tracks, loop) ==
    [ s EXCEPT !.playlist_mode = TRUE,
               !.playlist_tracks = tracks,
               !.playlist_index = 0,
               !.loop_playlist = loop,
               !.queue = <<>>,
               !.current = tracks[1],
               !.elapsed = 0,
               !.is_paused = FALSE ]

select_playlist_by_id(s, playlist_id, loop) ==
    IF playlist_id \notin PlaylistIds \/ PlaylistRows(playlist_id) = <<>>
    THEN s
    ELSE _select_playlist(s, PlaylistRows(playlist_id), loop)

select_playlist_by_name(s, name, loop) ==
    LET playlist == PlaylistByName(name) IN
    IF playlist = None \/ PlaylistRows(playlist) = <<>>
    THEN s
    ELSE _select_playlist(s, PlaylistRows(playlist), loop)

select_album_by_id(s, album_id, loop) ==
    IF album_id \notin AlbumIds \/ AlbumRows(album_id) = <<>>
    THEN s
    ELSE [ s EXCEPT !.playlist_mode = TRUE,
                    !.playlist_tracks = AlbumRows(album_id),
                    !.playlist_index = 0,
                    !.loop_playlist = loop,
                    !.loop_track = FALSE,
                    !.queue = <<>>,
                    !.current = AlbumRows(album_id)[1],
                    !.elapsed = 0 ]


\* set_loop_track that clears loop_playlist whatever `enabled` is
set_loop_track_always_clears(s, enabled) ==
    IF s.current = None
    THEN s
    ELSE [ s EXCEPT !.loop_track = enabled, !.loop_playlist = FALSE ]

set_loop_track(s, enabled) ==
    IF s.current = None
    THEN s
    ELSE LET s1 == [ s EXCEPT !.loop_track = enabled ] IN
         IF enabled THEN [ s1 EXCEPT !.loop_playlist = FALSE ] ELSE s1


\* set_loop_playlist without the `if not playlist_mode: return` test
set_loop_playlist_unguarded(s, enabled) == [ s EXCEPT !.loop_playlist = enabled ]

set_loop_playlist(s, enabled) ==
    IF ~s.playlist_mode
    THEN s
    ELSE [ s EXCEPT !.loop_playlist = enabled ]

----------------------------------------------------------------------------
(* app/session.py: the session store.  Time is counted in units of the 3   *)
(* minutes of SESSION_TTL.                                                 *)

SESSION_TTL == 1

\* the clock is followed up to this time
MaxTime == 3

\* uuid4() produces at most this many session ids
MaxSessions == 2

\* worker threads that run the callers of app/session.py
NThreads == 2

Threads == 1..NThreads

SessionIds == 1..MaxSessions

UserIds == 1..2

\* arguments of get_user_id and delete_session: None, the ids uuid4() can
\* produce, and an id it never produces
SessionArgs == {None} \cup SessionIds \cup {MaxSessions + 1}

\* _sessions = {}
NoSessions == [ x \in {} |-> None ]

\* _sessions[session_id] = (user_id, expires_at)
Put(m, session_id, user_id, expires_at) ==
    [ x \in DOMAIN m \cup {session_id} |->
        IF x = session_id
        THEN [ user_id |-> user_id, expires_at |-> expires_at ]
        ELSE m[x] ]

\* del _sessions[session_id]
Del(m, session_id) == [ x \in DOMAIN m \ {session_id} |-> m[x] ]

\* the None that _sessions.get gives for a missing entry
NoData == [ user_id |-> None, expires_at |-> 0 ]

\* _sessions.get(session_id)
Get(m, session_id) == IF session_id \in DOMAIN m THEN m[session_id] ELSE NoData

\* the outcome of a call that raised KeyError
KeyError == -1

\* a thread outside app/session.py
Idle == [ at |-> "idle", sid |-> None, data |-> NoData, late |-> FALSE ]

\* a thread inside get_user_id or delete_session: `data` is the local of
\* that name, `late` tells that the call began after the session had been
\* removed
Inside(at, session_id, data, late) ==
    [ at |-> at, sid |-> session_id, data |-> data, late |-> late ]

\* a call that has returned (or raised: result KeyError); `before` is the
\* store its last statement found
SessCall(name, session_id, result, data, late, expired, before) ==
    [ name |-> name, sid |-> session_id, result |-> result, data |-> data,
      late |-> late, expired |-> expired, before |-> before ]

NoCall == SessCall("none", None, None, NoData, FALSE, FALSE, NoSessions)

----------------------------------------------------------------------------
(* Operations as steps: the callers of app/player.py *)

Op(name, arg, nm, flag) == [ name |-> name, arg |-> arg, nm |-> nm, flag |-> flag ]

TickOp == Op("tick", 0, "", FALSE)

\* one engine call other than tick(): every name, with every argument
EngineOps ==
    { Op(n, 0, "", FALSE) : n \in {"reset", "play", "pause", "stop", "skip"} }
    \cup { Op(n, t, "", FALSE) :
             n \in {"track_select", "queue_add", "queue_remove"}, t \in TrackArgs }
    \cup { Op("playlist_select_id", p, "", l) : p \in PlaylistArgs, l \in BOOLEAN }
    \cup { Op("playlist_select_name", 0, n, l) : n \in PlaylistNames, l \in BOOLEAN }
    \cup { Op("album_select_id", a, "", l) : a \in AlbumArgs, l \in BOOLEAN }
    \cup { Op(n, 0, "", l) : n \in {"loop_track", "loop_playlist"}, l \in BOOLEAN }

\* the player after the call `op`
Apply(s, op) ==
    CASE op.name = "reset" -> reset(s)
      [] op.name = "play" -> play(s)
      [] op.name = "pause" -> stop(s)
      [] op.name = "stop" -> stop_all(s)
      [] op.name = "skip" -> skip(s)
      [] op.name = "track_select" -> select_track(s, op.arg)
      [] op.name = "queue_add" -> add_to_queue(s, op.arg)
      [] op.name = "queue_remove" -> remove_from_queue(s, op.arg)
      [] op.name = "playlist_select_id" -> select_playlist_by_id(s, op.arg, op.flag)
      [] op.name = "playlist_select_name" -> select_playlist_by_name(s, op.nm, op.flag)
      [] op.name = "album_select_id" -> select_album_by_id(s, op.arg, op.flag)
      [] op.name = "loop_track" -> set_loop_track(s, op.flag)
      [] op.name = "loop_playlist" -> set_loop_playlist(s, op.flag)
      [] op.name = "tick" -> tick(s)
      [] OTHER -> s

\* send_status() that reports PLAYING whenever a track is current
Snapshot_no_pause(s) ==
    [ status        |-> IF s.current # None THEN "PLAYING" ELSE "STOPPED",
      track         |-> IF s.current # None THEN Title(s.current) ELSE "null",
      elapsed       |-> s.elapsed,
      duration      |-> IF s.current # None THEN Duration(s.current) ELSE None,
      queue         |-> [ i \in 1..Len(s.queue) |-> Title(s.queue[i]) ],
      loop_track    |-> s.loop_track,
      loop_playlist |-> s.loop_playlist ]

\* send_status(): the JSON object sent
Snapshot(s) ==
    [ status        |-> IF s.current # None /\ s.is_paused THEN "PAUSED"
                        ELSE IF s.current # None THEN "PLAYING"
                        ELSE "STOPPED",
      track         |-> IF s.current # None THEN Title(s.current) ELSE "null",
      elapsed       |-> s.elapsed,
      duration      |-> IF s.current # None THEN Duration(s.current) ELSE None,
      queue         |-> [ i \in 1..Len(s.queue) |-> Title(s.queue[i]) ],
      loop_track    |-> s.loop_track,
      loop_playlist |-> s.loop_playlist ]

Init ==
    /\ player = InitPlayer
    /\ pre = InitPlayer
    /\ lastOp = Op("reset", 0, "", FALSE)
    /\ anchor = Op("reset", 0, "", FALSE)
    /\ base = InitPlayer
    /\ nticks = 0
    /\ pc = [ c \in 1..NConn |-> "closed" ]
    /\ lastSent = [ conn |-> 0, status |-> Snapshot(InitPlayer) ]
    /\ ticksInSecond = 0
    /\ secondStart = [ quiet |-> TRUE, s |-> InitPlayer ]
    /\ _sessions = NoSessions
    /\ now = 0
    /\ issued = {}
    /\ removed = {}
    /\ threads = [ t \in Threads |-> Idle ]
    /\ sessOp = NoCall

wsVars == <<pc, lastSent, ticksInSecond, secondStart>>

\* a direct call of one player function (tests/unit/test_player.py style)
Call(op) ==
    /\ op.name = "queue_add" /\ GetTrack(op.arg) # None
          => Len(player.queue) < MaxQueue
    /\ player' = Apply(player, op)
    /\ pre' = player
    /\ lastOp' = op
    /\ anchor' = op
    /\ base' = player'
    /\ nticks' = 0
    /\ UNCHANGED <<wsVars, sessVars>>

\* a direct call of tick()
Tick ==
    /\ nticks < MaxTicks
    /\ player' = tick(player)
    /\ pre' = player
    /\ lastOp' = TickOp
    /\ nticks' = nticks + 1
    /\ UNCHANGED <<anchor, base, wsVars, sessVars>>

Next ==
    \/ \E op \in EngineOps : Call(op)
    \/ Tick

Spec == Init /\ [][Next]_vars

----------------------------------------------------------------------------
(* app/websocket.py: websocket_endpoint, one loop per connection.          *)
(* The loops are coroutines of one event loop: the code between two awaits *)
(* runs without interruption.  After `await wait_for(receive_json)` the    *)
(* command, player.tick() and the status dictionary of send_status() are   *)
(* computed before the next await, so they form one step.                  *)

Conns == 1..NConn

\* payloads of loop_track / loop_playlist that are not JSON booleans:
\* no payload at all (data.get("payload", {}) gives {}), a non-empty
\* object, a non-empty string, the number 0
NonBooleans == {"absent", "object", "string", "zero"}

\* bool(payload) with a default payload that is truthy
bool_absent_enables(p) == p \in {"true", "object", "string", "absent"}

\* Python's bool(payload)
bool(p) == p \in {"true", "object", "string"}

\* messages the dispatcher cannot read: receive_json raises on text that
\* is not JSON, payload["id"] raises KeyError when the field is missing and
\* TypeError when the payload is not an object
Malformed ==
    { Op(n, 0, "", FALSE) : n \in {"unparseable", "missing_field", "payload_not_object"} }

\* loop commands whose payload is not a boolean
WrongTypeLoop ==
    { Op(n, 0, p, bool(p)) : n \in {"loop_track", "loop_playlist"}, p \in NonBooleans }

\* inbound messages: the twelve commands with well-formed payloads, a
\* command name the dispatcher does not know, and the messages above
Messages ==
    (EngineOps \ { Op("reset", 0, "", FALSE) })
    \cup { Op("unknown", 0, "", FALSE) }
    \cup Malformed
    \cup WrongTypeLoop

\* no message within the 0.05 s of wait_for: asyncio.TimeoutError
NoMessage == Op("none", 0, "", FALSE)

\* an if/elif chain that ends with `else: player.play()`
Dispatch_else_plays(s, m) ==
    IF m.name = "unknown"
    THEN play(s)
    ELSE IF m \in Malformed \/ m.name \in {"none", "reset", "tick"}
    THEN s
    ELSE Apply(s, m)

\* the if/elif chain: the player after the command of message m
Dispatch(s, m) ==
    IF m \in Malformed \/ m.name \in {"unknown", "none", "reset", "tick"}
    THEN s
    ELSE Apply(s, m)

\* ws.accept()
Connect(c) ==
    /\ pc[c] = "closed"
    /\ pc' = [ pc EXCEPT ![c] = "recv" ]
    /\ UNCHANGED <<player, lastSent, ticksInSecond, secondStart>>

\* a loop iteration that calls player.tick() before it reads the command
Receive_tick_first(c, m) ==
    /\ pc[c] = "recv"
    /\ m.name = "queue_add" /\ GetTrack(m.arg) # None
          => Len(player.queue) < MaxQueueWS
    /\ player' = Dispatch(tick(player), m)
    /\ lastSent' = [ conn |-> c, status |-> Snapshot(player') ]
    /\ ticksInSecond' = ticksInSecond + 1
    /\ secondStart' = [ quiet |-> FALSE, s |-> InitPlayer ]
    /\ pc' = [ pc EXCEPT ![c] = "sleep" ]

\* one loop iteration with a message received: command, tick, send, sleep
Receive(c, m) ==
    /\ pc[c] = "recv"
    /\ m.name = "queue_add" /\ GetTrack(m.arg) # None
          => Len(player.queue) < MaxQueueWS
    /\ player' = tick(Dispatch(player, m))
    /\ lastSent' = [ conn |-> c, status |-> Snapshot(player') ]
    /\ ticksInSecond' = ticksInSecond + 1
    /\ secondStart' = [ quiet |-> FALSE, s |-> InitPlayer ]
    /\ pc' = [ pc EXCEPT ![c] = "sleep" ]

\* one loop iteration with asyncio.TimeoutError: tick, send, sleep
Timeout(c) ==
    /\ pc[c] = "recv"
    /\ player' = tick(player)
    /\ lastSent' = [ conn |-> c, status |-> Snapshot(player') ]
    /\ ticksInSecond' = ticksInSecond + 1
    /\ pc' = [ pc EXCEPT ![c] = "sleep" ]
    /\ UNCHANGED secondStart

\* a disconnect handler that calls player.reset()
Disconnect_resets(c) ==
    /\ pc[c] = "recv"
    /\ pc' = [ pc EXCEPT ![c] = "closed" ]
    /\ player' = reset(player)
    /\ UNCHANGED <<lastSent, ticksInSecond, secondStart>>

\* receive_json raises WebSocketDisconnect: break
Disconnect(c) ==
    /\ pc[c] = "recv"
    /\ pc' = [ pc EXCEPT ![c] = "closed" ]
    /\ UNCHANGED <<player, lastSent, ticksInSecond, secondStart>>

\* send_json of the iteration just run raises because the client is gone:
\* the exception leaves the loop, the status was not delivered.  The model
\* lets this client connect again from the next second on.
SendFails(c) ==
    /\ pc[c] = "sleep"
    /\ pc' = [ pc EXCEPT ![c] = "ended" ]
    /\ lastSent' = IF lastSent.conn = c
                   THEN [ conn |-> 0, status |-> Snapshot(InitPlayer) ]
                   ELSE lastSent
    /\ UNCHANGED <<player, ticksInSecond, secondStart>>

\* one second of wall-clock time passes: every asyncio.sleep(1) returns.
\* A loop waiting in wait_for(..., timeout=0.05) has moved on long before.
Second ==
    /\ \A c \in Conns : pc[c] # "recv"
    /\ pc' = [ c \in Conns |-> CASE pc[c] = "sleep" -> "recv"
                                [] pc[c] = "ended" -> "closed"
                                [] OTHER -> pc[c] ]
    /\ ticksInSecond' = 0
    /\ secondStart' = [ quiet |-> TRUE, s |-> player ]
    /\ UNCHANGED <<player, lastSent>>

\* the connection loops of all clients; the history of direct calls stays
\* as it is
NextWS ==
    /\ \/ \E c \in Conns : Connect(c)
       \/ \E c \in Conns : \E m \in Messages : Receive(c, m)
       \/ \E c \in Conns : Timeout(c)
       \/ \E c \in Conns : Disconnect(c)
       \/ \E c \in Conns : SendFails(c)
       \/ Second
    /\ UNCHANGED <<pre, lastOp, anchor, base, nticks, sessVars>>

SpecWS == Init /\ [][NextWS]_vars

\* the loop of one client, seen iteration by iteration: right after an
\* iteration `pre` is the player before it and `lastOp` the message it
\* took; any other step forgets them
Client == CHOOSE c \in Conns : TRUE

Iterated(m) ==
    /\ pre' = player
    /\ lastOp' = m
    /\ UNCHANGED <<anchor, base, nticks, sessVars>>

Forgotten ==
    /\ pre' = player'
    /\ lastOp' = Op("idle", 0, "", FALSE)
    /\ UNCHANGED <<anchor, base, nticks, sessVars>>

NextLoop ==
    \/ Connect(Client) /\ Forgotten
    \/ \E m \in Messages : Receive(Client, m) /\ Iterated(m)
    \/ Timeout(Client) /\ Iterated(NoMessage)
    \/ Disconnect(Client) /\ Forgotten
    \/ SendFails(Client) /\ Forgotten
    \/ Second /\ Forgotten

SpecLoop == Init /\ [][NextLoop]_vars

----------------------------------------------------------------------------
(* Reference positions, computed from the durations alone *)

\* Sum(i) is the total duration of tracks[1..i]
RECURSIVE Prefix(_, _)
Prefix(tracks, i) ==
    IF i = 0 THEN 0 ELSE Prefix(tracks, i - 1) + Duration(tracks[i])

Total(tracks) == Prefix(tracks, Len(tracks))

\* the 0-based index of the track that plays at second p of the list
IndexAt(tracks, p) ==
    CHOOSE i \in 0..(Len(tracks) - 1) :
        Prefix(tracks, i) <= p /\ p < Prefix(tracks, i + 1)

\* seconds played of the list in state s
Offset(s) == Prefix(s.playlist_tracks, s.playlist_index) + s.elapsed

\* state s moved to second p of its list
AtSecond(s, p) ==
    LET i == IndexAt(s.playlist_tracks, p) IN
    [ s EXCEPT !.playlist_index = i,
               !.current = s.playlist_tracks[i + 1],
               !.elapsed = p - Prefix(s.playlist_tracks, i) ]

Playing(s) == s.current # None /\ ~s.is_paused

----------------------------------------------------------------------------
(* C1 *)

\* C1: with at least one connection open and a track playing, tick() is
\* applied once per second process-wide: during a second in which no
\* command arrives the player is the player at the start of the second or
\* one tick later, however many connection loops ran.
C1_TickOncePerSecond ==
    secondStart.quiet /\ Playing(secondStart.s)
        => /\ ticksInSecond <= 1
           /\ player \in { secondStart.s, tick(secondStart.s) }

----------------------------------------------------------------------------
(* C2 *)

\* C2: between operations, a current track has 0 <= elapsed < duration.
C2_ElapsedInRange ==
    player.current # None
        => /\ 0 <= player.elapsed
           /\ player.elapsed < Duration(player.current)

\* a tick that ended a track and started the next one
C2_Witness ==
    /\ lastOp = TickOp
    /\ pre.current # None
    /\ pre.elapsed = Duration(pre.current) - 1
    /\ player.current # None
    /\ player.current # pre.current
    /\ player.elapsed = 0

----------------------------------------------------------------------------
(* C3 *)

\* the invariants of the playback state: elapsed range; loop_playlist is
\* set only in list mode; paused, and list mode, only with a current track
DataModelInvariants(s) ==
    /\ s.current # None => 0 <= s.elapsed /\ s.elapsed < Duration(s.current)
    /\ s.current = None => s.elapsed = 0
    /\ s.loop_playlist => s.playlist_mode
    /\ s.is_paused => s.current # None
    /\ s.playlist_mode => s.current # None

----------------------------------------------------------------------------
(* C4 *)

\* only ticks have run since a select_track(T) that found T
AfterSelectTrack ==
    /\ anchor.name = "track_select"
    /\ GetTrack(anchor.arg) # None

\* C4: after selectTrack(T), the first T.duration - 1 ticks keep T
\* playing, and tick number T.duration stops the engine when the queue is
\* empty, or else makes the queue head current with elapsed 0 and removes
\* it from the queue.
C4_TickDurationTimes ==
    AfterSelectTrack =>
        LET T == GetTrack(anchor.arg) IN
        /\ ~base.loop_track /\ ~base.loop_playlist
        /\ nticks < Duration(T) =>
              player = [ base EXCEPT !.elapsed = nticks ]
        /\ nticks = Duration(T) =>
              IF base.queue = <<>>
              THEN /\ player.current = None
                   /\ Snapshot(player).status = "STOPPED"
                   /\ Snapshot(player).track = "null"
              ELSE /\ player.current = Head(base.queue)
                   /\ player.elapsed = 0
                   /\ player.queue = Tail(base.queue)
                   /\ Snapshot(player).status = "PLAYING"

\* the final tick of a two-second track took over the head of a queue of two
C4_Witness ==
    /\ AfterSelectTrack
    /\ Duration(anchor.arg) = 2
    /\ nticks = 2
    /\ Len(base.queue) = 2
    /\ player.current = Head(base.queue)
    /\ player.current # anchor.arg
    /\ Len(player.queue) = 1

----------------------------------------------------------------------------
(* C5 *)

\* C5: while loop_track is set and only tick() is applied, the track, the
\* list index and everything but elapsed stay as they were, the engine is
\* never STOPPED, and elapsed wraps to 0 on the tick at which it would
\* reach the duration.
C5_LoopTrackRepeats ==
    base.loop_track /\ base.current # None =>
        IF base.is_paused
        THEN player = base
        ELSE player = [ base EXCEPT
                          !.elapsed = (base.elapsed + nticks) % Duration(base.current) ]

\* in list mode, a looping two-second track has wrapped and gone on
C5_Witness ==
    /\ base.loop_track /\ Playing(base)
    /\ base.playlist_mode
    /\ Duration(base.current) = 2
    /\ base.elapsed = 1
    /\ nticks = 3
    /\ player.elapsed = 0
    /\ player.playlist_index + 1 < Len(player.playlist_tracks)

----------------------------------------------------------------------------
(* C6 *)

\* a playing list: list mode, not paused, loop_track off
ListPlaying(s) == s.playlist_mode /\ Playing(s) /\ ~s.loop_track

\* C6: a playing list with loop_playlist set and loop_track clear plays
\* its tracks in order, each for its duration, returns to the first track
\* with elapsed 0 after the total duration, and is never stopped by ticks.
C6_LoopPlaylistWraps ==
    ListPlaying(base) /\ base.loop_playlist =>
        player = AtSecond(base, (Offset(base) + nticks) % Total(base.playlist_tracks))

\* a list of two tracks, selected with loop = true, is back at its start
C6_Witness ==
    /\ anchor.name \in {"playlist_select_id", "playlist_select_name", "album_select_id"}
    /\ anchor.flag
    /\ ListPlaying(base) /\ base.loop_playlist
    /\ Len(base.playlist_tracks) = 2
    /\ nticks = Total(base.playlist_tracks)
    /\ pre.playlist_index = 1
    /\ player.playlist_index = 0
    /\ player.current = base.playlist_tracks[1]
    /\ player.elapsed = 0

----------------------------------------------------------------------------
(* C7 *)

\* C7: a playing list with both loop flags clear plays each remaining
\* track in order for exactly its duration and is STOPPED (no current
\* track, queue mode) once the total duration has been ticked.
C7_ListEndsStopped ==
    ListPlaying(base) /\ ~base.loop_playlist =>
        IF Offset(base) + nticks < Total(base.playlist_tracks)
        THEN player = AtSecond(base, Offset(base) + nticks)
        ELSE /\ player.current = None
             /\ ~player.playlist_mode
             /\ Snapshot(player).status = "STOPPED"

\* a list of two tracks, selected with loop = false, has just ended
C7_Witness ==
    /\ anchor.name \in {"playlist_select_id", "playlist_select_name", "album_select_id"}
    /\ ~anchor.flag
    /\ ListPlaying(base)
    /\ Len(base.playlist_tracks) = 2
    /\ nticks = Total(base.playlist_tracks)
    /\ lastOp = TickOp
    /\ pre.playlist_index = 1
    /\ player.current = None

----------------------------------------------------------------------------
(* C8 *)

\* C8: after pause() with a current track, ticks change nothing; play()
\* then clears paused and nothing else; and the ticks after that play()
\* add one second each for as long as the track lasts.
C8_PauseFreezes ==
    /\ anchor.name = "pause" /\ base.current # None
          => base.is_paused /\ player = base
    /\ lastOp.name = "play" /\ pre.current # None /\ pre.is_paused
          => player = [ pre EXCEPT !.is_paused = FALSE ]
    /\ anchor.name = "play" /\ base.current # None
          /\ base.elapsed + nticks < Duration(base.current)
          => player = [ base EXCEPT !.elapsed = base.elapsed + nticks ]

\* a track paused after its first second has stayed there for three ticks
C8_Witness ==
    /\ anchor.name = "pause"
    /\ lastOp = TickOp
    /\ nticks = 3
    /\ player.is_paused
    /\ player.current # None
    /\ player.elapsed = 1

\* a tick after play() has added a second
C8_ResumeReached ==
    /\ anchor.name = "play"
    /\ base.current # None
    /\ base.elapsed = 0
    /\ nticks = 1
    /\ player.elapsed = 1

----------------------------------------------------------------------------
(* C9 *)

\* the last step was select_track(T) for a track T of the catalog
SelectedTrack ==
    /\ lastOp.name = "track_select"
    /\ GetTrack(lastOp.arg) # None

\* C9: after selectTrack(T) for a known T, from any state, the engine
\* reports PLAYING, T's title and duration, elapsed 0, and is in queue mode
\* with both loop flags clear.
C9_SelectTrackPlays ==
    SelectedTrack =>
        LET T == GetTrack(lastOp.arg) IN
        /\ Snapshot(player).status = "PLAYING"
        /\ Snapshot(player).track = Title(T)
        /\ Snapshot(player).elapsed = 0
        /\ Snapshot(player).duration = Duration(T)
        /\ ~player.playlist_mode
        /\ ~player.loop_track
        /\ ~player.loop_playlist

\* select_track on a paused list with both loop flags set and a second played
C9_Witness ==
    /\ SelectedTrack
    /\ pre.is_paused
    /\ pre.playlist_mode
    /\ pre.loop_track
    /\ pre.loop_playlist
    /\ pre.elapsed = 1
    /\ pre.current # lastOp.arg
    /\ player.current = lastOp.arg

----------------------------------------------------------------------------
(* C10 *)

\* C10: selectTrack leaves the queue's contents and order as they were.
C10_SelectTrackKeepsQueue ==
    lastOp.name = "track_select" => player.queue = pre.queue

\* select_track of a known track with two different tracks queued
C10_Witness ==
    /\ SelectedTrack
    /\ Len(pre.queue) = 2
    /\ pre.queue[1] # pre.queue[2]
    /\ pre.current # player.current
    /\ player.current = lastOp.arg

----------------------------------------------------------------------------
(* C11 - C13: select_playlist_by_id, select_playlist_by_name,              *)
(* select_album_by_id                                                      *)

\* the track list the last call resolved, <<>> when it was no list
\* selection or resolved nothing
SelectedRows ==
    CASE lastOp.name = "playlist_select_id" ->
            IF lastOp.arg \in PlaylistIds THEN PlaylistRows(lastOp.arg) ELSE <<>>
      [] lastOp.name = "playlist_select_name" ->
            IF PlaylistByName(lastOp.nm) # None
            THEN PlaylistRows(PlaylistByName(lastOp.nm))
            ELSE <<>>
      [] lastOp.name = "album_select_id" ->
            IF lastOp.arg \in AlbumIds THEN AlbumRows(lastOp.arg) ELSE <<>>
      [] OTHER -> <<>>

\* the last call was a list selection that found a non-empty list
SelectedList == SelectedRows # <<>>

\* C11: after a successful selectPlaylist or selectAlbum with argument
\* loop, from any state, loop_track is false and loop_playlist = loop.
C11_SelectListSetsLoops ==
    SelectedList => ~player.loop_track /\ player.loop_playlist = lastOp.flag

\* C12: after a successful selectPlaylist or selectAlbum, from any state,
\* the player is not paused: the reported status is PLAYING.
C12_SelectListUnpauses ==
    SelectedList =>
        /\ ~player.is_paused
        /\ Snapshot(player).status = "PLAYING"

\* C13: after a successful selectPlaylist or selectAlbum the player is in
\* list mode, the selection is the resolved list at index 0, the queue is
\* empty, current is the first track of the list and elapsed is 0.
C13_SelectListStartsList ==
    SelectedList =>
        /\ player.playlist_mode
        /\ player.playlist_tracks = SelectedRows
        /\ player.playlist_index = 0
        /\ player.queue = <<>>
        /\ player.current = SelectedRows[1]
        /\ player.elapsed = 0

\* a list of two selected over a full queue, in the second second of
\* another track
C13_Witness ==
    /\ SelectedList
    /\ Len(SelectedRows) = 2
    /\ Len(pre.queue) = MaxQueue
    /\ pre.elapsed = 1
    /\ pre.current # SelectedRows[1]
    /\ pre.playlist_tracks # SelectedRows
    /\ player.playlist_tracks = SelectedRows

----------------------------------------------------------------------------
(* C14 *)

\* the last call named something the catalog does not resolve, or a list
\* without tracks
NotResolved ==
    \/ lastOp.name \in {"queue_add", "track_select"} /\ GetTrack(lastOp.arg) = None
    \/ /\ lastOp.name \in {"playlist_select_id", "playlist_select_name",
                           "album_select_id"}
       /\ SelectedRows = <<>>

\* C14: enqueue, selectTrack, selectPlaylist and selectAlbum with an
\* identifier that resolves to nothing, or to an empty list, leave the
\* whole playback state as it was.
C14_NotFoundChangesNothing == NotResolved => player = pre

\* a playlist without tracks selected by name on a paused, looping track
\* with a queue
C14_Witness ==
    /\ NotResolved
    /\ lastOp.name = "playlist_select_name"
    /\ PlaylistByName(lastOp.nm) # None
    /\ pre.current # None
    /\ pre.is_paused
    /\ pre.loop_track
    /\ pre.queue # <<>>
    /\ pre.elapsed = 1

----------------------------------------------------------------------------
(* C15 *)

\* C15: loop_track and loop_playlist are never both true.
C15_LoopsExclusive == ~(player.loop_track /\ player.loop_playlist)

----------------------------------------------------------------------------
(* C16 *)

\* C16: with a current track, setLoopTrack(true) sets loop_track and
\* clears loop_playlist, setLoopTrack(false) clears loop_track and leaves
\* loop_playlist; nothing else changes.
C16_SetLoopTrack ==
    lastOp.name = "loop_track" /\ pre.current # None =>
        IF lastOp.flag
        THEN player = [ pre EXCEPT !.loop_track = TRUE, !.loop_playlist = FALSE ]
        ELSE player = [ pre EXCEPT !.loop_track = FALSE ]

\* set_loop_track(false) on a paused list with both loop flags set
C16_Witness ==
    /\ lastOp.name = "loop_track"
    /\ ~lastOp.flag
    /\ pre.loop_track
    /\ pre.loop_playlist
    /\ pre.is_paused
    /\ pre.queue # <<>>
    /\ player.loop_playlist
    /\ ~player.loop_track

----------------------------------------------------------------------------
(* C17 *)

\* C17: loop_playlist is true only in list mode.
C17_LoopPlaylistOnlyInList == player.loop_playlist => player.playlist_mode

\* the stop command has ended a looping list
C17_Witness ==
    /\ lastOp.name = "stop"
    /\ pre.playlist_mode
    /\ pre.loop_playlist
    /\ ~player.playlist_mode
    /\ ~player.loop_playlist

----------------------------------------------------------------------------
(* C18 *)

\* C18: setLoopTrack while STOPPED, setLoopPlaylist outside list mode and
\* pause while STOPPED change nothing; a STOPPED engine has both loop
\* flags false after a loop command.
C18_GuardedNoOps ==
    /\ lastOp.name = "loop_track" /\ pre.current = None => player = pre
    /\ lastOp.name = "loop_playlist" /\ ~pre.playlist_mode => player = pre
    /\ lastOp.name = "pause" /\ pre.current = None => player = pre
    /\ lastOp.name \in {"loop_track", "loop_playlist"} /\ pre.current = None
          => ~player.loop_track /\ ~player.loop_playlist

\* set_loop_playlist(true) on a track that plays from the queue
C18_Witness ==
    /\ lastOp.name = "loop_playlist"
    /\ lastOp.flag
    /\ ~pre.playlist_mode
    /\ pre.current # None
    /\ pre.queue # <<>>
    /\ pre.playlist_tracks # <<>>

----------------------------------------------------------------------------
(* C19 *)

\* the last call was add_to_queue(T) for a track T of the catalog
Enqueued ==
    /\ lastOp.name = "queue_add"
    /\ GetTrack(lastOp.arg) # None

\* C19: enqueue(T) on a STOPPED engine with an empty queue makes T current
\* with elapsed 0, PLAYING, the queue empty again; enqueue(T) while a track
\* is current appends T to the queue and changes nothing else.
C19_Enqueue ==
    Enqueued =>
        LET T == GetTrack(lastOp.arg) IN
        /\ pre.current = None /\ pre.queue = <<>> =>
              /\ player.current = T
              /\ player.elapsed = 0
              /\ Snapshot(player).status = "PLAYING"
              /\ player.queue = <<>>
        /\ pre.current # None =>
              player = [ pre EXCEPT !.queue = Append(pre.queue, T) ]

\* a track added to a stopped engine that had played a list before
C19_Witness ==
    /\ Enqueued
    /\ pre.current = None
    /\ pre.queue = <<>>
    /\ pre.playlist_tracks # <<>>
    /\ player.current = lastOp.arg
    /\ Duration(lastOp.arg) = 2

\* a track appended behind another one while a third entry plays
C19_WitnessAppend ==
    /\ Enqueued
    /\ pre.current # None
    /\ pre.is_paused
    /\ Len(pre.queue) = 1
    /\ pre.queue[1] # lastOp.arg
    /\ player.queue = <<pre.queue[1], lastOp.arg>>

----------------------------------------------------------------------------
(* C20 *)

\* q without its first entry equal to id
RECURSIVE WithoutFirst(_, _)
WithoutFirst(q, id) ==
    IF q = <<>> THEN <<>>
    ELSE IF Head(q) = id THEN Tail(q)
    ELSE <<Head(q)>> \o WithoutFirst(Tail(q), id)

\* C20: dequeue(id) removes the first queue entry with that id, keeps the
\* order of the others and returns true, or returns false and leaves the
\* queue alone when there is none; nothing but the queue changes, also
\* when current has that id.
C20_Dequeue ==
    lastOp.name = "queue_remove" =>
        LET id == lastOp.arg
            present == \E i \in 1..Len(pre.queue) : pre.queue[i] = id
        IN /\ remove_from_queue_result(pre, id) = present
           /\ player = [ pre EXCEPT !.queue = WithoutFirst(pre.queue, id) ]
           /\ ~present => player = pre

\* the id removed is queued twice with another track in between, and is
\* the current track as well
C20_Witness ==
    /\ lastOp.name = "queue_remove"
    /\ pre.current = lastOp.arg
    /\ Len(pre.queue) = 3
    /\ pre.queue[1] = lastOp.arg
    /\ pre.queue[2] # lastOp.arg
    /\ pre.queue[3] = lastOp.arg
    /\ player.queue = <<pre.queue[2], pre.queue[3]>>
    /\ player.current = lastOp.arg

----------------------------------------------------------------------------
(* C21 - C26: the connection loop *)

\* C21: in every status message sent, status is PAUSED iff a track is
\* current and paused, PLAYING iff a track is current and not paused,
\* STOPPED iff no track is current, and track and duration are null
\* exactly when status is STOPPED.
C21_SnapshotStatus ==
    lastSent.conn # 0 =>
        LET m == lastSent.status IN
        /\ m.status = "PAUSED" <=> player.current # None /\ player.is_paused
        /\ m.status = "PLAYING" <=> player.current # None /\ ~player.is_paused
        /\ m.status = "STOPPED" <=> player.current = None
        /\ m.track = "null" <=> m.status = "STOPPED"
        /\ m.duration = None <=> m.status = "STOPPED"

\* a status sent while a track of a list is paused after its first second
C21_Witness ==
    /\ lastSent.conn # 0
    /\ lastSent.status.status = "PAUSED"
    /\ lastSent.status.elapsed = 1
    /\ player.is_paused
    /\ player.playlist_mode

\* C22: a message that is not JSON, lacks a payload field the command
\* needs, or carries a payload of the wrong type calls no player function:
\* the iteration only ticks, sends the status and goes on.
C22_MalformedDropped ==
    lastOp \in Malformed \cup WrongTypeLoop =>
        /\ player = tick(pre)
        /\ lastSent = [ conn |-> Client, status |-> Snapshot(player) ]
        /\ pc[Client] = "sleep"

\* C23: a message with a command name outside the twelve calls no player
\* function: the player after the iteration is the player after tick().
C23_UnknownIgnored ==
    lastOp.name = "unknown" => player = tick(pre)

\* an unknown command arrived while a paused track had a queue behind it
C23_Witness ==
    /\ lastOp.name = "unknown"
    /\ pre.current # None
    /\ pre.is_paused
    /\ pre.queue # <<>>
    /\ pc[Client] = "sleep"

\* C24: a disconnect, found on receive or on send, ends the loop of that
\* connection only: the step leaves the player as it is and every other
\* connection where it is.
C24_DisconnectLocal ==
    [][ \A c \in Conns :
          pc[c] \in {"recv", "sleep"} /\ pc'[c] \in {"closed", "ended"} =>
              /\ player' = player
              /\ \A d \in Conns \ {c} : pc'[d] = pc[d] ]_vars

\* one loop has ended on a failed send within this second, a track is
\* playing, and the latest status went to another connection
C24_Witness ==
    /\ \E c \in Conns :
          /\ pc[c] = "ended"
          /\ \E d \in Conns \ {c} : pc[d] = "sleep" /\ lastSent.conn = d
    /\ ticksInSecond = NConn
    /\ Playing(player)
    /\ player.elapsed = 1

\* C25: an iteration applies at most one command, then one tick() whether
\* or not there was a command, then sends one status; the status after
\* queue_add on a stopped engine shows the track PLAYING with elapsed 1.
C25_CommandTickSend ==
    /\ lastOp \in (EngineOps \cap Messages) \cup {NoMessage} =>
          /\ player = tick(IF lastOp = NoMessage THEN pre ELSE Apply(pre, lastOp))
          /\ lastSent = [ conn |-> Client, status |-> Snapshot(player) ]
          /\ ticksInSecond = 1
    /\ /\ lastOp.name = "queue_add"
       /\ GetTrack(lastOp.arg) # None
       /\ pre.current = None
       /\ pre.queue = <<>>
       /\ Duration(lastOp.arg) > 1
       => /\ lastSent.status.status = "PLAYING"
          /\ lastSent.status.track = Title(lastOp.arg)
          /\ lastSent.status.elapsed = 1

\* queue_add arrived on a stopped engine and the status shows elapsed 1
C25_Witness ==
    /\ lastOp.name = "queue_add"
    /\ pre.current = None
    /\ pre.queue = <<>>
    /\ lastSent.conn = Client
    /\ lastSent.status.status = "PLAYING"
    /\ lastSent.status.elapsed = 1
    /\ lastSent.status.queue = <<>>

\* C26: when a connection opens, the status of the player as it is then
\* is sent to it at once, before any command or tick of that connection.
C26_StatusOnConnect ==
    [][ \A c \in Conns :
          pc[c] = "closed" /\ pc'[c] = "recv" =>
              lastSent' = [ conn |-> c, status |-> Snapshot(player) ] ]_vars

----------------------------------------------------------------------------
(* C27 - C30: reset, play, stop_all, skip *)

\* C27: reset() from any state gives the initial state: empty queue, empty
\* list with index 0, no current track, elapsed 0, queue mode, both loop
\* flags and paused false.
C27_ResetGivesInitial ==
    lastOp.name = "reset" =>
        /\ player.queue = <<>>
        /\ player.playlist_tracks = <<>>
        /\ player.playlist_index = 0
        /\ player.current = None
        /\ player.elapsed = 0
        /\ ~player.playlist_mode
        /\ ~player.loop_track
        /\ ~player.loop_playlist
        /\ ~player.is_paused
        /\ player = InitPlayer

\* reset() of a paused, looping list with a second played and a queue
C27_Witness ==
    /\ lastOp.name = "reset"
    /\ pre.is_paused
    /\ pre.playlist_mode
    /\ pre.loop_playlist
    /\ pre.elapsed = 1
    /\ pre.playlist_index = 1
    /\ Len(pre.queue) = 2

\* C28: play() with a current track clears paused, changes nothing else
\* and returns the current track; play() without one advances to the next
\* track: the queue head becomes current when there is one, and the engine
\* stays STOPPED otherwise.
C28_Play ==
    lastOp.name = "play" =>
        /\ pre.current # None =>
              /\ player = [ pre EXCEPT !.is_paused = FALSE ]
              /\ play_result(pre) = pre.current
        /\ pre.current = None =>
              /\ player = next_track(pre)
              /\ pre.queue # <<>> =>
                    /\ player.current = Head(pre.queue)
                    /\ player.queue = Tail(pre.queue)
                    /\ player.elapsed = 0
                    /\ ~player.is_paused
              /\ pre.queue = <<>> => player.current = None

\* play() on a list paused after one second, loop_playlist set, a queue
C28_Witness ==
    /\ lastOp.name = "play"
    /\ pre.is_paused
    /\ pre.elapsed = 1
    /\ pre.playlist_mode
    /\ pre.loop_playlist
    /\ pre.queue # <<>>
    /\ ~player.is_paused

\* play() on a stopped engine with two tracks queued
C28_WitnessStopped ==
    /\ lastOp.name = "play"
    /\ pre.current = None
    /\ Len(pre.queue) = 2
    /\ player.current = pre.queue[1]
    /\ player.queue = <<pre.queue[2]>>

\* C29: stop_all() from any state sets current to none, elapsed to 0, the
\* mode to queue mode, paused and both loop flags to false, and leaves the
\* queue with its entries in their order.
C29_StopAll ==
    lastOp.name = "stop" =>
        /\ player.current = None
        /\ player.elapsed = 0
        /\ ~player.playlist_mode
        /\ ~player.is_paused
        /\ ~player.loop_track
        /\ ~player.loop_playlist
        /\ player.queue = pre.queue

\* stop_all() on a paused looping list with two different tracks queued
C29_Witness ==
    /\ lastOp.name = "stop"
    /\ pre.is_paused
    /\ pre.playlist_mode
    /\ pre.loop_playlist
    /\ pre.elapsed = 1
    /\ Len(pre.queue) = 2
    /\ pre.queue[1] # pre.queue[2]

\* C30: skip() always advances, paused or looping the track or not:
\* afterwards elapsed is 0 and paused false; in list mode current is the
\* next entry of the list, the first one again past the end when
\* loop_playlist is set; in queue mode current is the head taken from the
\* queue; with no next source the engine is STOPPED.
C30_Skip ==
    lastOp.name = "skip" =>
        /\ player.elapsed = 0
        /\ ~player.is_paused
        /\ pre.playlist_mode =>
              LET n == Len(pre.playlist_tracks)
                  i == pre.playlist_index + 1
              IN IF i < n
                 THEN /\ player.current = pre.playlist_tracks[i + 1]
                      /\ player.playlist_index = i
                 ELSE IF pre.loop_playlist
                 THEN /\ player.current = pre.playlist_tracks[1]
                      /\ player.playlist_index = 0
                 ELSE player.current = None
        /\ ~pre.playlist_mode =>
              IF pre.queue # <<>>
              THEN /\ player.current = Head(pre.queue)
                   /\ player.queue = Tail(pre.queue)
              ELSE player.current = None

\* skip() on the first track of a list, paused, with loop_track set
C30_Witness ==
    /\ lastOp.name = "skip"
    /\ pre.is_paused
    /\ pre.loop_track
    /\ pre.playlist_mode
    /\ pre.playlist_index = 0
    /\ pre.elapsed = 1
    /\ player.playlist_index = 1
    /\ player.current # pre.current

----------------------------------------------------------------------------
(* C31 *)

\* the last call was none of dequeue, select* and reset, made in queue mode
QueueStep ==
    /\ ~pre.playlist_mode
    /\ lastOp.name \in {"play", "pause", "stop", "skip", "queue_add",
                        "loop_track", "loop_playlist", "tick"}

\* the queue of `pre` with the track of a queue_add behind it
Arrived ==
    IF lastOp.name = "queue_add" /\ GetTrack(lastOp.arg) # None
    THEN Append(pre.queue, GetTrack(lastOp.arg))
    ELSE pre.queue

\* C31: in queue mode, without dequeue, select* and reset, tracks become
\* current in the order in which they were enqueued: a track enters the
\* queue at its tail only, leaves it at its head only, and the one that
\* leaves is the one that becomes current; the status lists the titles of
\* the queue in that order.
C31_QueueIsFifo ==
    /\ QueueStep =>
          \/ /\ player.queue = Arrived
             /\ player.current \in {pre.current, None}
          \/ /\ Arrived # <<>>
             /\ player.queue = Tail(Arrived)
             /\ player.current = Head(Arrived)
             /\ player.elapsed = 0
    /\ Len(Snapshot(player).queue) = Len(player.queue)
    /\ \A i \in 1..Len(player.queue) :
          Snapshot(player).queue[i] = Title(player.queue[i])

\* a tick ended the current track and took the head of a queue of three
C31_Witness ==
    /\ QueueStep
    /\ lastOp.name = "tick"
    /\ Len(pre.queue) = 3
    /\ pre.queue[1] # pre.queue[2]
    /\ pre.current = pre.queue[2]
    /\ player.current = pre.queue[1]
    /\ player.queue = <<pre.queue[2], pre.queue[3]>>
    /\ Snapshot(player).queue = <<Title(pre.queue[2]), Title(pre.queue[3])>>

----------------------------------------------------------------------------
(* C32 *)

\* the status send_status() derives from state s
Status(s) == Snapshot(s).status

\* no next source: the list is at its last entry, or the queue is empty
Exhausted(s) ==
    IF s.playlist_mode
    THEN s.playlist_index + 1 >= Len(s.playlist_tracks)
    ELSE s.queue = <<>>

\* STOPPED is left only to PLAYING, by an operation that sets current
LeavesStopped ==
    Status(pre) = "STOPPED" /\ Status(player) # "STOPPED" =>
        /\ Status(player) = "PLAYING"
        /\ lastOp.name \in {"queue_add", "play", "skip", "track_select",
                            "playlist_select_id", "playlist_select_name",
                            "album_select_id"}

\* PAUSED is entered only from PLAYING, by pause()
EntersPaused ==
    Status(player) = "PAUSED" /\ Status(pre) # "PAUSED" =>
        /\ Status(pre) = "PLAYING"
        /\ lastOp.name = "pause"

\* tick() changes nothing on a PAUSED engine
TickKeepsPaused ==
    lastOp.name = "tick" /\ Status(pre) = "PAUSED" => player = pre

\* C32 as stated: STOPPED is entered only by stop_all(), reset(), or by
\* running out of sources while no loop flag is set.
C32_StatusMachine ==
    /\ LeavesStopped
    /\ EntersPaused
    /\ TickKeepsPaused
    /\ Status(player) = "STOPPED" /\ Status(pre) # "STOPPED" =>
          \/ lastOp.name \in {"stop", "reset"}
          \/ /\ lastOp.name \in {"tick", "skip"}
             /\ Exhausted(pre)
             /\ ~pre.loop_track
             /\ ~pre.loop_playlist

\* C32, amended: skip() does not look at loop_track, so it stops an engine
\* that has run out of sources while loop_track is set; in queue mode
\* loop_playlist is always false.
C32_StatusMachineSkip ==
    /\ LeavesStopped
    /\ EntersPaused
    /\ TickKeepsPaused
    /\ Status(player) = "STOPPED" /\ Status(pre) # "STOPPED" =>
          \/ lastOp.name \in {"stop", "reset"}
          \/ /\ lastOp.name \in {"tick", "skip"}
             /\ Exhausted(pre)
             /\ ~pre.loop_playlist
             /\ lastOp.name = "tick" => ~pre.loop_track /\ ~pre.is_paused

\* skip() stopped a paused engine that looped its only track
C32_Witness ==
    /\ lastOp.name = "skip"
    /\ Status(pre) = "PAUSED"
    /\ pre.loop_track
    /\ pre.elapsed = 1
    /\ Status(player) = "STOPPED"

----------------------------------------------------------------------------
(* C33, C34 *)

\* C33: whenever no track is current, elapsed is 0, paused is false, the
\* mode is queue mode and both loop flags are false.
C33_StoppedIsClean ==
    player.current = None =>
        /\ player.elapsed = 0
        /\ ~player.is_paused
        /\ ~player.playlist_mode
        /\ ~player.loop_track
        /\ ~player.loop_playlist

\* a tick ended the last track of a list that had tracks queued behind it
C33_Witness ==
    /\ player.current = None
    /\ lastOp.name = "tick"
    /\ pre.playlist_mode
    /\ pre.elapsed = 1
    /\ pre.playlist_index = 1
    /\ player.queue # <<>>
    /\ player.playlist_tracks # <<>>

\* C34: whenever the mode is list mode, a track is current, the list is
\* not empty, 0 <= index < length of the list, and current is the entry
\* of the list at index.
C34_ListModeSelection ==
    player.playlist_mode =>
        /\ player.current # None
        /\ player.playlist_tracks # <<>>
        /\ 0 <= player.playlist_index
        /\ player.playlist_index < Len(player.playlist_tracks)
        /\ player.current = player.playlist_tracks[player.playlist_index + 1]

\* the second entry of a list, a second played, paused with loop_track
\* set, after a dequeue that left one track queued
C34_Witness ==
    /\ player.playlist_mode
    /\ player.loop_track
    /\ player.is_paused
    /\ player.playlist_index = 1
    /\ player.elapsed = 1
    /\ lastOp.name = "queue_remove"
    /\ Len(pre.queue) = 2
    /\ Len(player.queue) = 1

----------------------------------------------------------------------------
(* C35, C36 *)

\* tick() or skip() advanced from state s: skip() always does, tick() when
\* the current track is neither paused nor looped and is in its last second
Advances(op, s) ==
    \/ op.name = "skip"
    \/ /\ op.name = "tick"
       /\ s.current # None
       /\ ~s.is_paused
       /\ ~s.loop_track
       /\ s.elapsed + 1 >= Duration(s.current)

\* C35: tracks enqueued in list mode are not taken while the list plays:
\* tick() and skip() leave the queue as it is; when the list ends with
\* loop_playlist false the engine is STOPPED with the queue kept; a later
\* play() starts the head of the queue.
C35_ListIgnoresQueue ==
    /\ pre.playlist_mode /\ lastOp.name \in {"tick", "skip"} =>
          /\ player.queue = pre.queue
          /\ player.current # None =>
                /\ player.playlist_mode
                /\ player.current \in
                      { pre.playlist_tracks[i] : i \in 1..Len(pre.playlist_tracks) }
          /\ Advances(lastOp, pre) /\ Exhausted(pre) /\ ~pre.loop_playlist =>
                Status(player) = "STOPPED"
    /\ lastOp.name = "play" /\ pre.current = None /\ pre.queue # <<>> =>
          /\ player.current = Head(pre.queue)
          /\ player.queue = Tail(pre.queue)
          /\ player.elapsed = 0
          /\ Status(player) = "PLAYING"

\* play() after a list of two ran to its end with two tracks queued
C35_Witness ==
    /\ lastOp.name = "play"
    /\ pre.current = None
    /\ Len(pre.playlist_tracks) = 2
    /\ pre.playlist_index = 2
    /\ Len(pre.queue) = 2
    /\ pre.queue[1] # pre.queue[2]
    /\ player.current = pre.queue[1]
    /\ player.queue = <<pre.queue[2]>>

\* C36: enqueue(T) on a STOPPED engine with a non-empty queue starts the
\* head of that queue, not T: the former head is current with elapsed 0
\* and T is the last entry of the queue.
C36_EnqueueStartsOldHead ==
    /\ lastOp.name = "queue_add"
    /\ GetTrack(lastOp.arg) # None
    /\ pre.current = None
    /\ pre.queue # <<>>
    => /\ player.current = Head(pre.queue)
       /\ player.elapsed = 0
       /\ Status(player) = "PLAYING"
       /\ player.queue = Append(Tail(pre.queue), GetTrack(lastOp.arg))

\* after stop_all() left two tracks queued, a different track is enqueued
C36_Witness ==
    /\ lastOp.name = "queue_add"
    /\ pre.current = None
    /\ Len(pre.queue) = 2
    /\ pre.queue[1] # lastOp.arg
    /\ player.current = pre.queue[1]
    /\ player.queue = <<pre.queue[2], lastOp.arg>>

----------------------------------------------------------------------------
(* Ticks with no further command.  While clients send commands the engine  *)
(* takes commands and ticks in any order; from some moment on every        *)
(* receive_json of the loop times out (websocket.py 120, 158-159) and each *)
(* iteration only calls player.tick() (165).  An iteration lasts at most   *)
(* the 0.05 s timeout plus the 1 s sleep, so while a connection is open the *)
(* next tick always comes: weak fairness of the tick.                      *)

QuietOp == Op("quiet", 0, "", FALSE)

Quiet == anchor = QuietOp

\* a command while commands still arrive
Command(op) ==
    /\ ~Quiet
    /\ op.name = "queue_add" /\ GetTrack(op.arg) # None
          => Len(player.queue) < MaxQueue
    /\ player' = Apply(player, op)
    /\ UNCHANGED <<pre, lastOp, anchor, base, nticks, wsVars, sessVars>>

\* a tick while commands still arrive
BusyTick ==
    /\ ~Quiet
    /\ player' = tick(player)
    /\ UNCHANGED <<pre, lastOp, anchor, base, nticks, wsVars, sessVars>>

\* the last command has been handled; base keeps the state it left
Quiesce ==
    /\ ~Quiet
    /\ anchor' = QuietOp
    /\ base' = player
    /\ pre' = player
    /\ lastOp' = QuietOp
    /\ UNCHANGED <<player, nticks, wsVars, sessVars>>

\* a tick of an iteration whose receive timed out
QuietTick ==
    /\ Quiet
    /\ player' = tick(player)
    /\ pre' = player
    /\ lastOp' = TickOp
    /\ UNCHANGED <<anchor, base, nticks, wsVars, sessVars>>

NextQuiet ==
    \/ \E op \in EngineOps : Command(op)
    \/ BusyTick
    \/ Quiesce
    \/ QuietTick

SpecQuiet == Init /\ [][NextQuiet]_vars /\ WF_vars(QuietTick)

----------------------------------------------------------------------------
(* C37 *)

\* C37: with both loop flags false and the engine not paused, ticks with no
\* further command eventually bring the engine to STOPPED, and it stays
\* STOPPED under further ticks.
C37_TicksReachStopped ==
    (Quiet /\ ~player.loop_track /\ ~player.loop_playlist /\ ~player.is_paused)
        ~> [](Status(player) = "STOPPED")

\* ticks alone played a track, the two queued behind it, and stopped
C37_Witness ==
    /\ Quiet
    /\ base.current # None
    /\ ~base.playlist_mode
    /\ Len(base.queue) = 2
    /\ ~base.loop_track /\ ~base.loop_playlist /\ ~base.is_paused
    /\ lastOp = TickOp
    /\ pre.current = base.queue[2]
    /\ Status(player) = "STOPPED"
    /\ player.queue = <<>>

----------------------------------------------------------------------------
(* C38 *)

\* a track in its last second that is neither paused nor looped
LastSecond(s) ==
    /\ s.current # None
    /\ ~s.is_paused
    /\ ~s.loop_track
    /\ s.elapsed = Duration(s.current) - 1

\* C38: in every reachable state with a current track that is not paused,
\* not looped and has elapsed = duration - 1, tick() gives exactly the
\* state that skip() gives.
C38_LastTickIsSkip ==
    /\ LastSecond(player) => tick(player) = skip(player)
    /\ lastOp.name = "tick" /\ LastSecond(pre) => player = skip(pre)
    /\ lastOp.name = "skip" /\ LastSecond(pre) => player = tick(pre)

\* the tick of the last second of the last track of a looping list of two,
\* with a track queued
C38_Witness ==
    /\ lastOp.name = "tick"
    /\ LastSecond(pre)
    /\ pre.elapsed = 1
    /\ pre.playlist_mode
    /\ pre.loop_playlist
    /\ pre.playlist_index = 1
    /\ Len(pre.playlist_tracks) = 2
    /\ pre.queue # <<>>
    /\ player = skip(pre)
    /\ player.playlist_index = 0
    /\ player.current = pre.playlist_tracks[1]

----------------------------------------------------------------------------
(* C39 *)

\* the payload of a loop_track / loop_playlist message
LoopPayload(m) ==
    IF m.nm # "" THEN m.nm ELSE IF m.flag THEN "true" ELSE "false"

\* payloads that are false in a Python condition: false, {} (the default
\* of a message without payload) and 0
Falsy == {"false", "absent", "zero"}

\* C39: loop_track and loop_playlist hand the truthiness of the raw payload
\* to the engine: true enables, false disables, and a message without a
\* payload field disables the flag.
C39_LoopPayloadTruthiness ==
    lastOp.name \in {"loop_track", "loop_playlist"} =>
        LET enable == LoopPayload(lastOp) \notin Falsy IN
        /\ lastOp.flag = enable
        /\ player = tick(IF lastOp.name = "loop_track"
                         THEN set_loop_track(pre, enable)
                         ELSE set_loop_playlist(pre, enable))

\* a loop_track message without payload switched the track loop off
C39_Witness ==
    /\ lastOp.name = "loop_track"
    /\ LoopPayload(lastOp) = "absent"
    /\ pre.current # None
    /\ pre.loop_track
    /\ pre.elapsed = 0
    /\ Duration(pre.current) = 2
    /\ ~player.loop_track
    /\ player.current = pre.current
    /\ player.elapsed = 1

\* a loop_playlist message with payload true switched the list loop on
C39_WitnessEnabled ==
    /\ lastOp.name = "loop_playlist"
    /\ LoopPayload(lastOp) = "true"
    /\ pre.playlist_mode
    /\ ~pre.loop_playlist
    /\ player.loop_playlist

----------------------------------------------------------------------------
(* app/session.py as steps.  Its callers, get_current_user                 *)
(* (app/dependencies.py 22-55) and login and logout (app/routers/auth.py), *)
(* are plain `def` functions, which FastAPI runs in worker threads: two    *)
(* requests can be inside app/session.py at once, and the interpreter can  *)
(* switch threads between any two statements.  _sessions has no lock.      *)
(* The player and the connections stand still here.                        *)

playerVars == <<player, pre, lastOp, anchor, base, nticks>>

\* create_session(user_id): uuid4() gives an id it has not given before;
\* the one statement that touches _sessions is the store
CreateSession(user_id) ==
    \E session_id \in SessionIds \ issued :
        /\ _sessions' = Put(_sessions, session_id, user_id, now + SESSION_TTL)
        /\ issued' = issued \cup {session_id}
        /\ sessOp' = SessCall("create_session", session_id, session_id,
                              NoData, FALSE, FALSE, _sessions)
        /\ UNCHANGED <<now, removed, threads, playerVars, wsVars>>

\* get_user_id, lines 62-66: `if not session_id`, `_sessions.get`,
\* `if not data`
GetRead(t, session_id) ==
    /\ threads[t] = Idle
    /\ LET data == IF session_id = None THEN NoData
                   ELSE Get(_sessions, session_id) IN
       IF data = NoData
       THEN /\ sessOp' = SessCall("get_user_id", session_id, None, NoData,
                                  session_id \in removed, FALSE, _sessions)
            /\ UNCHANGED threads
       ELSE /\ threads' = [ threads EXCEPT ![t] =
                   Inside("get_test", session_id, data, session_id \in removed) ]
            /\ sessOp' = NoCall
    /\ UNCHANGED <<_sessions, now, issued, removed, playerVars, wsVars>>

\* get_user_id, line 70: `if time.time() > expires_at`
GetTest(t) ==
    /\ threads[t].at = "get_test"
    /\ threads' = [ threads EXCEPT ![t].at =
           IF now > threads[t].data.expires_at THEN "get_del" ELSE "get_store" ]
    /\ sessOp' = NoCall
    /\ UNCHANGED <<_sessions, now, issued, removed, playerVars, wsVars>>

\* get_user_id, lines 71-72: `del _sessions[session_id]`, `return None`;
\* del raises KeyError when the entry is no longer there
GetDel(t) ==
    /\ threads[t].at = "get_del"
    /\ LET l == threads[t] IN
       IF l.sid \in DOMAIN _sessions
       THEN /\ _sessions' = Del(_sessions, l.sid)
            /\ removed' = removed \cup {l.sid}
            /\ sessOp' = SessCall("get_user_id", l.sid, None, l.data,
                                  l.late, TRUE, _sessions)
       ELSE /\ sessOp' = SessCall("get_user_id", l.sid, KeyError, l.data,
                                  l.late, TRUE, _sessions)
            /\ UNCHANGED <<_sessions, removed>>
    /\ threads' = [ threads EXCEPT ![t] = Idle ]
    /\ UNCHANGED <<now, issued, playerVars, wsVars>>

\* get_user_id, lines 74-75: the store with the new expiry, `return user_id`
GetStore(t) ==
    /\ threads[t].at = "get_store"
    /\ LET l == threads[t] IN
       /\ _sessions' = Put(_sessions, l.sid, l.data.user_id, now + SESSION_TTL)
       /\ sessOp' = SessCall("get_user_id", l.sid, l.data.user_id, l.data,
                             l.late, FALSE, _sessions)
    /\ threads' = [ threads EXCEPT ![t] = Idle ]
    /\ UNCHANGED <<now, issued, removed, playerVars, wsVars>>

\* delete_session, line 83: `if session_id in _sessions`
DeleteTest(t, session_id) ==
    /\ threads[t] = Idle
    /\ IF session_id \in DOMAIN _sessions
       THEN /\ threads' = [ threads EXCEPT ![t] =
                   Inside("delete_del", session_id, NoData, FALSE) ]
            /\ sessOp' = NoCall
       ELSE /\ sessOp' = SessCall("delete_session", session_id, None, NoData,
                                  FALSE, FALSE, _sessions)
            /\ UNCHANGED threads
    /\ UNCHANGED <<_sessions, now, issued, removed, playerVars, wsVars>>

\* delete_session, line 84: `del _sessions[session_id]`
DeleteDel(t) ==
    /\ threads[t].at = "delete_del"
    /\ LET l == threads[t] IN
       IF l.sid \in DOMAIN _sessions
       THEN /\ _sessions' = Del(_sessions, l.sid)
            /\ removed' = removed \cup {l.sid}
            /\ sessOp' = SessCall("delete_session", l.sid, None, NoData,
                                  FALSE, FALSE, _sessions)
       ELSE /\ sessOp' = SessCall("delete_session", l.sid, KeyError, NoData,
                                  FALSE, FALSE, _sessions)
            /\ UNCHANGED <<_sessions, removed>>
    /\ threads' = [ threads EXCEPT ![t] = Idle ]
    /\ UNCHANGED <<now, issued, playerVars, wsVars>>

\* time passes
Elapse ==
    /\ now < MaxTime
    /\ now' = now + 1
    /\ sessOp' = NoCall
    /\ UNCHANGED <<_sessions, issued, removed, threads, playerVars, wsVars>>

NextSession ==
    \/ \E user_id \in UserIds : CreateSession(user_id)
    \/ \E t \in Threads : \E session_id \in SessionArgs : GetRead(t, session_id)
    \/ \E t \in Threads : GetTest(t)
    \/ \E t \in Threads : GetDel(t)
    \/ \E t \in Threads : GetStore(t)
    \/ \E t \in Threads : \E session_id \in SessionArgs : DeleteTest(t, session_id)
    \/ \E t \in Threads : DeleteDel(t)
    \/ Elapse

SpecSession == Init /\ [][NextSession]_vars

----------------------------------------------------------------------------
(* C40 *)

\* get_user_id has just returned (or raised)
Looked == sessOp.name = "get_user_id"

\* the session it looked up was stored and not past its expiry
Live == sessOp.data # NoData /\ ~sessOp.expired

\* the lookup returns the user id exactly when the session exists and the
\* time is not past its expiry, and then the expiry is now + SESSION_TTL
C40_LookupSlides ==
    Looked =>
        /\ sessOp.result \in UserIds <=> Live
        /\ Live =>
              /\ sessOp.result = sessOp.data.user_id
              /\ sessOp.sid \in DOMAIN _sessions
              /\ _sessions[sessOp.sid] =
                    [ user_id |-> sessOp.result, expires_at |-> now + SESSION_TTL ]

\* a lookup made after the expiry deletes the session
C40_ExpiredLookupDeletes ==
    Looked /\ sessOp.expired => sessOp.sid \notin DOMAIN _sessions

\* once a session has been removed, by an expired lookup or by
\* delete_session, no lookup that begins later returns a user
C40_RemovedStaysRemoved ==
    Looked /\ sessOp.late => sessOp.result \notin UserIds

\* delete_session removes the session and changes nothing for an unknown one
C40_DeleteRemoves ==
    sessOp.name = "delete_session" =>
        /\ sessOp.sid \notin DOMAIN _sessions
        /\ sessOp.sid \notin DOMAIN sessOp.before => _sessions = sessOp.before

\* C40: session lookup is a sliding TTL: get_user_id(s) returns the user id
\* exactly when s is stored and the time is not past its expiry, and then
\* sets the expiry to now + SESSION_TTL; a lookup after expiry deletes the
\* session, so every later lookup of s returns None; delete_session(s) makes
\* every later lookup of s return None and does nothing for an unknown s.
C40_SlidingTtl ==
    /\ C40_LookupSlides
    /\ C40_ExpiredLookupDeletes
    /\ C40_RemovedStaysRemoved
    /\ C40_DeleteRemoves

====
